---- MODULE Spec2Model ----
(***************************************************************************)
(* Media storage of piccolo_admin: the identifier policy                   *)
(* (MediaStorage.generate_file_id), the two storage backends               *)
(* (LocalMediaStorage, S3MediaStorage) and the reconciliation of stored    *)
(* files against the keys referenced by the database column                *)
(* (get_unused_file_keys, delete_unused_files).                            *)
(*                                                                         *)
(* A Python str is modelled as a sequence of one-character strings, so     *)
(* "a.jpg" is <<"a", ".", "j", "p", "g">>.                                  *)
(***************************************************************************)
EXTENDS Integers, Sequences, FiniteSets, TLC

VARIABLES
    allowed_characters,  \* self.allowed_characters (optional sequence)
    allowed_extensions,  \* self.allowed_extensions (optional sequence, lowered)
    arg_file_name,       \* the file_name a caller passes to generate_file_id
    ret,                 \* what that call of generate_file_id produced
    backend,             \* which MediaStorage subclass the instance is
    file_permissions,    \* LocalMediaStorage.file_permissions (optional int)
    umask_mode,          \* the mode open(path, "wb") gives a new file
    files,               \* the medium: key -> [data, mode]
    db,                  \* the rows of self.column (a list of keys)
    tasks,               \* the store_file calls in flight, one per caller
    ok_calls,            \* the store_file calls that returned a key
    n_calls,             \* how many store_file calls were started
    rec                  \* the delete_unused_files run

vars == <<allowed_characters, allowed_extensions, arg_file_name, ret, backend,
          file_permissions, umask_mode, files, db, tasks, ok_calls, n_calls, rec>>

-----------------------------------------------------------------------------
(* Bounds of the model *)

\* longest middle part of an enumerated file name
MaxMid == 3
\* how far below the truncation length the padded names start
PadSlack == 4
\* how many store_file calls are started
MaxCalls == 2
\* how many rows the referencing table holds
MaxRows == 1

-----------------------------------------------------------------------------
(* Python values *)

\* Optional[...]: None, or a value
None == [some |-> FALSE, v |-> <<>>]
Some(x) == [some |-> TRUE, v |-> x]

\* bool(x) of an Optional[Sequence]: None and the empty sequence are falsy
Truthy(opt) == opt.some /\ opt.v # <<>>

ToSet(s) == {s[i] : i \in DOMAIN s}

Min(a, b) == IF a < b THEN a ELSE b

\* s[:n]
Prefix(s, n) == SubSeq(s, 1, Min(n, Len(s)))

\* s[n+1:]
DropFirst(s, n) == SubSeq(s, n + 1, Len(s))

\* n copies of the character c
Repeat(c, n) == [i \in 1..n |-> c]

\* string.ascii_lowercase, string.ascii_uppercase, string.digits
ascii_lowercase ==
    <<"a", "b", "c", "d", "e", "f", "g", "h", "i", "j", "k", "l", "m",
      "n", "o", "p", "q", "r", "s", "t", "u", "v", "w", "x", "y", "z">>
ascii_uppercase ==
    <<"A", "B", "C", "D", "E", "F", "G", "H", "I", "J", "K", "L", "M",
      "N", "O", "P", "Q", "R", "S", "T", "U", "V", "W", "X", "Y", "Z">>
digits == <<"0", "1", "2", "3", "4", "5", "6", "7", "8", "9">>

\* str.lower() on one character, and on a string
LowerChar(c) ==
    IF \E i \in DOMAIN ascii_uppercase : ascii_uppercase[i] = c
    THEN ascii_lowercase[CHOOSE i \in DOMAIN ascii_uppercase : ascii_uppercase[i] = c]
    ELSE c
Lower(s) == [i \in DOMAIN s |-> LowerChar(s[i])]

\* sub in s
Contains(s, sub) ==
    \E i \in 1..(Len(s) - Len(sub) + 1) : SubSeq(s, i, i + Len(sub) - 1) = sub

\* the positions of the character c in s
Positions(s, c) == {i \in DOMAIN s : s[i] = c}

Max(S) == CHOOSE x \in S : \A y \in S : y <= x

-----------------------------------------------------------------------------
(* Module constants of base.py *)

ALLOWED_EXTENSIONS ==
    << <<"m", "p", "3">>, <<"w", "a", "v">>,
       <<"c", "s", "v">>, <<"t", "s", "v">>,
       <<"p", "d", "f">>,
       <<"g", "i", "f">>, <<"j", "p", "e", "g">>, <<"j", "p", "g">>,
       <<"p", "n", "g">>, <<"s", "v", "g">>, <<"t", "i", "f">>,
       <<"w", "e", "b", "p">>,
       <<"r", "t", "f">>, <<"t", "x", "t">>,
       <<"m", "o", "v">>, <<"m", "p", "4">>, <<"w", "e", "b", "m">> >>

ALLOWED_CHARACTERS ==
    ascii_lowercase \o ascii_uppercase \o digits \o <<" ", "-", "_", ".">>

\* the length above which generate_file_id truncates the name
TruncateAt == 50

\* the ValueError messages of generate_file_id
EmptyName == "The file name can't be empty."
HiddenFile == "File names must not start with a period."
DoublePeriod == "File names must not contain '..'."
DisallowedCharacter == "is not allowed in the filename."
NotAllowedType == "This file type isn't allowed."
NoExtension == "The file has no extension."

\* the outcome of a call: a returned file_id, or a raised ValueError
Return(file_id) == [raised |-> "", char |-> "", file_id |-> file_id]
Raise(msg, c) == [raised |-> msg, char |-> c, file_id |-> <<>>]
NotCalled == [raised |-> "not called", char |-> "", file_id |-> <<>>]

-----------------------------------------------------------------------------
(* MediaStorage.__init__ *)

\* self.allowed_extensions: lowered, and None when the argument is falsy
InitAllowedExtensions(arg) ==
    IF Truthy(arg) THEN Some([i \in DOMAIN arg.v |-> Lower(arg.v[i])]) ELSE None

-----------------------------------------------------------------------------
(* MediaStorage.generate_file_id *)

\* a slip: the directory components are kept
PathName_Unstripped(s) == s

\* pathlib.Path(file_name).name on a POSIX system: the last component that is
\* neither empty nor ".", or "" when there is none
PathComponentStarts(s) ==
    {i \in DOMAIN s : s[i] # "/" /\ (i = 1 \/ s[i - 1] = "/")}
PathComponentAt(s, i) ==
    LET seps == {j \in i..Len(s) : s[j] = "/"}
    IN  IF seps = {} THEN SubSeq(s, i, Len(s))
        ELSE SubSeq(s, i, (CHOOSE j \in seps : \A k \in seps : j <= k) - 1)
PathName(s) ==
    LET starts == {i \in PathComponentStarts(s) : PathComponentAt(s, i) # <<".">>}
    IN  IF starts = {} THEN <<>> ELSE PathComponentAt(s, Max(starts))

\* a slip: endswith in place of startswith
StartsWithPeriod_Ends(file_name) ==
    Len(file_name) >= 1 /\ file_name[Len(file_name)] = "."

\* file_name.startswith(".")
StartsWithPeriod(file_name) == Len(file_name) >= 1 /\ file_name[1] = "."

\* a slip: only a leading ".." is looked for
HasDoublePeriod_Leading(file_name) ==
    Len(file_name) >= 2 /\ SubSeq(file_name, 1, 2) = <<".", ".">>

\* ".." in file_name
HasDoublePeriod(file_name) == Contains(file_name, <<".", ".">>)

\* the first character of file_name that is not in allowed, in the loop's order
FirstDisallowed(file_name, allowed) ==
    LET bad == {i \in DOMAIN file_name : file_name[i] \notin ToSet(allowed)}
    IN  IF bad = {} THEN 0 ELSE CHOOSE i \in bad : \A j \in bad : i <= j

\* file_name.rsplit(".", 1)
RSplit(file_name) ==
    LET dots == Positions(file_name, ".")
    IN  IF dots = {} THEN <<file_name>>
        ELSE << SubSeq(file_name, 1, Max(dots) - 1),
                SubSeq(file_name, Max(dots) + 1, Len(file_name)) >>

\* extension.lower() not in self.allowed_extensions, when the latter is truthy
ExtensionRejected(extension, exts) ==
    Truthy(exts) /\ Lower(extension) \notin ToSet(exts.v)

\* a slip: the name is never cut
Truncate_Never(file_name, name) == name

\* lines 157-161: the name is cut when the whole file_name is too long
Truncate(file_name, name) ==
    IF Len(file_name) > TruncateAt THEN Prefix(name, TruncateAt) ELSE name

\* str(uuid.UUID): the 32 hex digits in groups of 8-4-4-4-12
UuidStr(u) ==
    SubSeq(u, 1, 8) \o <<"-">> \o SubSeq(u, 9, 12) \o <<"-">> \o
    SubSeq(u, 13, 16) \o <<"-">> \o SubSeq(u, 17, 20) \o <<"-">> \o
    SubSeq(u, 21, 32)

\* a slip: the extension is lowered on the way out
ComposeFileId_Lowered(name, uuid_, extension) ==
    LET file_id == name \o <<"-">> \o UuidStr(uuid_)
    IN  IF extension # <<>> THEN file_id \o <<".">> \o Lower(extension) ELSE file_id

\* lines 165-167
ComposeFileId(name, uuid_, extension) ==
    LET file_id == name \o <<"-">> \o UuidStr(uuid_)
    IN  IF extension # <<>> THEN file_id \o <<".">> \o extension ELSE file_id

\* a slip: the name is split and its extension checked before its characters
GenerateFileId_SplitFirst(raw_file_name, chars, exts, uuid_) ==
    IF raw_file_name = <<>> THEN Raise(EmptyName, "")
    ELSE
    LET file_name == PathName(raw_file_name)
        bad == IF Truthy(chars) THEN FirstDisallowed(file_name, chars.v) ELSE 0
        components == RSplit(file_name)
    IN  IF StartsWithPeriod(file_name) THEN Raise(HiddenFile, "")
        ELSE IF HasDoublePeriod(file_name) THEN Raise(DoublePeriod, "")
        ELSE IF Len(components) # 2 THEN Raise(NoExtension, "")
        ELSE IF ExtensionRejected(components[2], exts) THEN Raise(NotAllowedType, "")
        ELSE IF bad # 0 THEN Raise(DisallowedCharacter, file_name[bad])
        ELSE Return(ComposeFileId(Truncate(file_name, components[1]),
                                  uuid_, components[2]))

GenerateFileId(raw_file_name, chars, exts, uuid_) ==
    IF raw_file_name = <<>> THEN Raise(EmptyName, "")
    ELSE
    LET file_name == PathName(raw_file_name)
        bad == IF Truthy(chars) THEN FirstDisallowed(file_name, chars.v) ELSE 0
        components == RSplit(file_name)
    IN  IF StartsWithPeriod(file_name) THEN Raise(HiddenFile, "")
        ELSE IF HasDoublePeriod(file_name) THEN Raise(DoublePeriod, "")
        ELSE IF bad # 0 THEN Raise(DisallowedCharacter, file_name[bad])
        ELSE IF Len(components) = 2
             THEN LET name == components[1]
                      extension == components[2]
                  IN  IF ExtensionRejected(extension, exts)
                      THEN Raise(NotAllowedType, "")
                      ELSE Return(ComposeFileId(Truncate(file_name, name),
                                                uuid_, extension))
             ELSE Raise(NoExtension, "")

\* the values uuid.uuid4() returns here, as 32 hex digits
UUIDs ==
    { <<"f", "d", "0", "1", "2", "5", "c", "7", "8", "7", "7", "7", "4", "9",
        "7", "6", "8", "3", "c", "1", "8", "1", "6", "0", "5", "d", "5", "a",
        "b", "1", "5", "5">>,
      <<"3", "b", "e", "a", "c", "9", "5", "0", "7", "7", "2", "1", "4", "6",
        "c", "9", "9", "e", "7", "d", "5", "e", "9", "0", "8", "e", "f", "5",
        "1", "0", "1", "1">> }

-----------------------------------------------------------------------------
(* The callers' inputs *)

\* the characters file names are enumerated over
Alphabet == {"a", ".", "/", "@"}

\* every string over Alphabet of length at most n
RECURSIVE Strings(_)
Strings(n) ==
    IF n = 0 THEN {<<>>}
    ELSE LET shorter == Strings(n - 1)
         IN  shorter \cup {Append(s, c) : s \in {t \in shorter : Len(t) = n - 1},
                                          c \in Alphabet}

Suffixes ==
    { <<>>, <<".", "j", "p", "g">>, <<".", "J", "p", "g">>, <<".", "e", "x", "e">> }

\* lengths of the run of "a" put in front, none or around the truncation length
PadLens == {0} \cup ((TruncateAt - PadSlack)..(TruncateAt + 1))

FileNames ==
    {Repeat("a", n) \o mid \o suffix :
        n \in PadLens, mid \in Strings(MaxMid), suffix \in Suffixes}

\* the allowed_characters and allowed_extensions arguments of the constructor
CharacterArgs == {Some(ALLOWED_CHARACTERS), None}
ExtensionArgs == {Some(ALLOWED_EXTENSIONS), None, Some(<< <<"J", "P", "G">> >>)}

-----------------------------------------------------------------------------
(* The medium and the calls in flight *)

\* the callers of store_file, and the bytes each uploads
Callers == {1, 2}
Data(c) == IF c = 1 THEN "bytes1" ELSE "bytes2"

\* the file names given to store_file
StoreNames == { <<"a", ".", "j", "p", "g">>, <<".", "a">> }

\* file names that fail each of the checks of generate_file_id
InvalidNames ==
    { <<>>, <<"/">>, <<".", "a">>, <<"a", ".", ".", "a">>, <<"@">>, <<"a">>,
      <<"a", ".", "e", "x", "e">> }

NoFiles == [k \in {} |-> [data |-> "", mode |-> 0]]

\* a caller's store_file: where it is, the file_id it derived, how it ended
\* (fd_at_path: the file it opened is still the one at its path)
IdleTask == [pc |-> "idle", file_id |-> <<>>, fd_at_path |-> FALSE, out |-> "none"]

\* the exceptions store_file lets through, besides the ValueError messages
IOErrorRaised == "Unable to save the file"
FileNotFound == "FileNotFoundError"

IdleRun ==
    [pc |-> "idle", auto |-> FALSE, number_shown |-> 0,
     db_keys |-> None, disk_keys |-> None, unused |-> None,
     reported |-> -1, shown |-> <<>>, asked |-> FALSE, answer |-> "",
     bulk_arg |-> None, removed |-> {}, interleaved |-> FALSE]

\* the run after a step of store_file or a change of the rows: while it is
\* under way, it has been interleaved with
Interleaved ==
    IF rec.pc \in {"idle", "done"} THEN rec ELSE [rec EXCEPT !.interleaved = TRUE]

\* the storage part at rest
StorageInit ==
    /\ files = NoFiles
    /\ db = <<>>
    /\ tasks = [c \in Callers |-> IdleTask]
    /\ ok_calls = [k \in {} |-> <<>>]
    /\ n_calls = 0
    /\ rec = IdleRun

storage_vars == <<backend, file_permissions, umask_mode, files, db, tasks,
                  ok_calls, n_calls, rec>>

-----------------------------------------------------------------------------
(* generate_file_id called on its own *)

InitId ==
    /\ allowed_characters \in CharacterArgs
    /\ allowed_extensions \in {InitAllowedExtensions(a) : a \in ExtensionArgs}
    /\ arg_file_name \in FileNames
    /\ ret = NotCalled
    /\ backend = "local"
    /\ file_permissions = None
    /\ umask_mode = 420
    /\ StorageInit

CallGenerateFileId ==
    /\ ret = NotCalled
    /\ \E uuid_ \in UUIDs :
          ret' = GenerateFileId(arg_file_name, allowed_characters,
                                allowed_extensions, uuid_)
    /\ UNCHANGED <<allowed_characters, allowed_extensions, arg_file_name>>
    /\ UNCHANGED storage_vars

NextId == CallGenerateFileId

SpecId == InitId /\ [][NextId]_vars

-----------------------------------------------------------------------------
(* LocalMediaStorage.store_file *)

id_vars == <<allowed_characters, allowed_extensions, arg_file_name, ret>>
config_vars == <<backend, file_permissions, umask_mode>>

\* a slip: the ValueError is recorded and the blocking part runs all the same
Submitted_Regardless(got, next_pc) ==
    [pc |-> next_pc, file_id |-> got.file_id, fd_at_path |-> FALSE,
     out |-> IF got.raised # "" THEN got.raised ELSE "none"]

\* the task of caller c after generate_file_id, which either raised or gave
\* the file_id that the blocking part then works on
Submitted(got, next_pc) ==
    IF got.raised # ""
    THEN [pc |-> "idle", file_id |-> <<>>, fd_at_path |-> FALSE, out |-> got.raised]
    ELSE [pc |-> next_pc, file_id |-> got.file_id, fd_at_path |-> FALSE, out |-> "none"]

\* store_file up to the hand-over of save() to the executor
LocalStoreFile(c, file_name) ==
    /\ backend = "local"
    /\ tasks[c].pc = "idle"
    /\ n_calls < MaxCalls
    /\ \E uuid_ \in UUIDs :
          tasks' = [tasks EXCEPT ![c] =
                       Submitted(GenerateFileId(PathName(file_name),
                                                allowed_characters,
                                                allowed_extensions, uuid_),
                                 "exists")]
    /\ n_calls' = n_calls + 1
    /\ rec' = Interleaved
    /\ UNCHANGED <<id_vars, config_vars, files, db, ok_calls>>

\* save(): os.path.exists(path), and the IOError on a clash
SaveExists(c) ==
    /\ tasks[c].pc = "exists"
    /\ tasks' = [tasks EXCEPT ![c] =
                    IF tasks[c].file_id \in DOMAIN files
                    THEN [@ EXCEPT !.pc = "idle", !.out = IOErrorRaised]
                    ELSE [@ EXCEPT !.pc = "open"]]
    /\ rec' = Interleaved
    /\ UNCHANGED <<id_vars, config_vars, files, db, ok_calls, n_calls>>

\* open(path, "wb"): a new empty file, or the file at path emptied
OpenForWriting(key) ==
    IF key \in DOMAIN files
    THEN [files EXCEPT ![key].data = ""]
    ELSE [k \in DOMAIN files \cup {key} |->
             IF k = key THEN [data |-> "", mode |-> umask_mode] ELSE files[k]]

\* save(): the open of the new file
SaveOpen(c) ==
    /\ tasks[c].pc = "open"
    /\ files' = OpenForWriting(tasks[c].file_id)
    /\ tasks' = [tasks EXCEPT ![c].pc = "copy", ![c].fd_at_path = TRUE]
    /\ rec' = Interleaved
    /\ UNCHANGED <<id_vars, config_vars, db, ok_calls, n_calls>>

\* save(): shutil.copyfileobj(file, new_file), into the file that was opened
SaveCopy(c) ==
    /\ tasks[c].pc = "copy"
    /\ files' = IF tasks[c].file_id \in DOMAIN files /\ tasks[c].fd_at_path
                THEN [files EXCEPT ![tasks[c].file_id].data = Data(c)]
                ELSE files
    /\ tasks' = [tasks EXCEPT ![c].pc = "chmod"]
    /\ rec' = Interleaved
    /\ UNCHANGED <<id_vars, config_vars, db, ok_calls, n_calls>>

\* the record of the calls that returned key, with caller c's call added
Succeeded(key, c) ==
    [k \in DOMAIN ok_calls \cup {key} |->
        IF k = key
        THEN (IF key \in DOMAIN ok_calls THEN Append(ok_calls[key], c) ELSE <<c>>)
        ELSE ok_calls[k]]

\* the mode that save() gives os.chmod
ChmodMode(perms) == 416

\* save(): the os.chmod when file_permissions is set, then the return of the
\* file_id to the caller
SaveChmod(c) ==
    LET key == tasks[c].file_id
    IN  /\ tasks[c].pc = "chmod"
        /\ IF file_permissions.some /\ key \notin DOMAIN files
           THEN /\ tasks' = [tasks EXCEPT ![c].pc = "idle", ![c].out = FileNotFound]
                /\ UNCHANGED <<files, ok_calls>>
           ELSE /\ files' = IF file_permissions.some
                            THEN [files EXCEPT ![key].mode = ChmodMode(file_permissions)]
                            ELSE files
                /\ tasks' = [tasks EXCEPT ![c].pc = "idle", ![c].out = "ok"]
                /\ ok_calls' = Succeeded(key, c)
        /\ rec' = Interleaved
        /\ UNCHANGED <<id_vars, config_vars, db, n_calls>>

-----------------------------------------------------------------------------
(* S3MediaStorage.store_file *)

\* store_file and store_file_sync up to the upload
S3StoreFile(c, file_name) ==
    /\ backend = "s3"
    /\ tasks[c].pc = "idle"
    /\ n_calls < MaxCalls
    /\ \E uuid_ \in UUIDs :
          tasks' = [tasks EXCEPT ![c] =
                       Submitted(GenerateFileId(file_name, allowed_characters,
                                                allowed_extensions, uuid_),
                                 "upload")]
    /\ n_calls' = n_calls + 1
    /\ rec' = Interleaved
    /\ UNCHANGED <<id_vars, config_vars, files, db, ok_calls>>

\* client.upload_fileobj: the object under the key is put, or replaced
UploadFileobj(key, data) ==
    [k \in DOMAIN files \cup {key} |->
        IF k = key THEN [data |-> data, mode |-> 0] ELSE files[k]]

\* store_file_sync: the upload, then the return of the file_id
S3Upload(c) ==
    /\ tasks[c].pc = "upload"
    /\ files' = UploadFileobj(tasks[c].file_id, Data(c))
    /\ tasks' = [tasks EXCEPT ![c].pc = "idle", ![c].out = "ok"]
    /\ ok_calls' = Succeeded(tasks[c].file_id, c)
    /\ rec' = Interleaved
    /\ UNCHANGED <<id_vars, config_vars, db, n_calls>>

-----------------------------------------------------------------------------
(* The referencing table *)

\* the caller records the key store_file gave it in a new row
InsertRow(c) ==
    /\ tasks[c].pc = "idle" /\ tasks[c].out = "ok"
    /\ Len(db) < MaxRows
    /\ db' = Append(db, tasks[c].file_id)
    /\ tasks' = [tasks EXCEPT ![c] = IdleTask]
    /\ rec' = Interleaved
    /\ UNCHANGED <<id_vars, config_vars, files, ok_calls, n_calls>>

\* a row that referenced a stored file is deleted
DeleteRow(i) ==
    /\ i \in DOMAIN db
    /\ db' = SubSeq(db, 1, i - 1) \o SubSeq(db, i + 1, Len(db))
    /\ rec' = Interleaved
    /\ UNCHANGED <<id_vars, config_vars, files, tasks, ok_calls, n_calls>>

-----------------------------------------------------------------------------
(* Reconciliation: get_unused_file_keys and delete_unused_files *)

\* the list a set of keys is enumerated as (one fixed order)
Listing(S) ==
    CHOOSE l \in [1..Cardinality(S) -> S] : \A x \in S : \E i \in DOMAIN l : l[i] = x

\* the values given for number_shown, and the answers typed at the prompt
NumbersShown == {1}
Answers == {"y", "yes"}

\* delete_unused_files is called
DeleteUnusedFiles(number_shown, auto) ==
    /\ rec.pc \in {"idle", "done"}
    /\ rec' = [IdleRun EXCEPT !.pc = "gather", !.auto = auto,
                              !.number_shown = number_shown]
    /\ UNCHANGED <<id_vars, config_vars, files, db, tasks, ok_calls, n_calls>>

\* get_file_keys_from_db: the column of every row
GetFileKeysFromDb ==
    /\ rec.pc = "gather" /\ ~rec.db_keys.some
    /\ rec' = [rec EXCEPT !.db_keys = Some(db)]
    /\ UNCHANGED <<id_vars, config_vars, files, db, tasks, ok_calls, n_calls>>

\* get_file_keys: every key the medium holds
FileKeys == Listing(DOMAIN files)

GetFileKeys ==
    /\ rec.pc = "gather" /\ ~rec.disk_keys.some
    /\ rec' = [rec EXCEPT !.disk_keys = Some(FileKeys)]
    /\ UNCHANGED <<id_vars, config_vars, files, db, tasks, ok_calls, n_calls>>

\* a slip: the difference taken the wrong way round
UnusedFileKeys_Swapped(db_keys, disk_keys) ==
    Listing(ToSet(db_keys) \ ToSet(disk_keys))

\* list(set(disk_keys) - set(db_keys))
UnusedFileKeys(db_keys, disk_keys) ==
    Listing(ToSet(disk_keys) \ ToSet(db_keys))

\* get_unused_file_keys returns to delete_unused_files, once both lists of
\* the gather are there
GetUnusedFileKeys ==
    /\ rec.pc = "gather" /\ rec.db_keys.some /\ rec.disk_keys.some
    /\ rec' = [rec EXCEPT !.unused = Some(UnusedFileKeys(rec.db_keys.v, rec.disk_keys.v)),
                          !.pc = "unused"]
    /\ UNCHANGED <<id_vars, config_vars, files, db, tasks, ok_calls, n_calls>>

\* a slip: the prompt is skipped
AfterReport_Ungated(number_unused, auto) ==
    IF number_unused = 0 THEN "done" ELSE "delete"

\* where delete_unused_files goes after its report: nothing more when there
\* is nothing unused, the deletion when auto, else the prompt
AfterReport(number_unused, auto) ==
    IF number_unused = 0 THEN "done"
    ELSE IF auto THEN "delete"
    ELSE "input"

\* delete_unused_files prints the number of unused files and some examples
ReportUnused ==
    /\ rec.pc = "unused"
    /\ rec' = [rec EXCEPT
                 !.db_keys = None,
                 !.disk_keys = None,
                 !.reported = Len(rec.unused.v),
                 !.shown = IF Len(rec.unused.v) # 0
                           THEN Prefix(rec.unused.v, rec.number_shown) ELSE <<>>,
                 !.pc = AfterReport(Len(rec.unused.v), rec.auto)]
    /\ UNCHANGED <<id_vars, config_vars, files, db, tasks, ok_calls, n_calls>>

\* input(...) == "y"
Confirmed(answer) == answer = "y"

\* the answer to "Would you like to delete them?"
Input(answer) ==
    /\ rec.pc = "input"
    /\ rec' = [rec EXCEPT !.asked = TRUE, !.answer = answer,
                          !.pc = IF Confirmed(answer) THEN "delete" ELSE "done"]
    /\ UNCHANGED <<id_vars, config_vars, files, db, tasks, ok_calls, n_calls>>

\* bulk_delete_files: every key given is removed, an absent one is passed over
BulkDeleteFiles(file_keys) ==
    [k \in DOMAIN files \ ToSet(file_keys) |-> files[k]]

\* a slip-free variant: the keys are looked up again before they are deleted
CallBulkDeleteFiles_Rechecked ==
    /\ rec.pc = "delete"
    /\ files' = BulkDeleteFiles(Listing(ToSet(rec.unused.v) \ ToSet(db)))
    /\ ok_calls' = [k \in DOMAIN ok_calls \cap DOMAIN files' |-> ok_calls[k]]
    /\ tasks' = [c \in Callers |->
                    IF tasks[c].file_id \in DOMAIN files \ DOMAIN files'
                    THEN [tasks[c] EXCEPT !.fd_at_path = FALSE]
                    ELSE tasks[c]]
    /\ rec' = [rec EXCEPT !.bulk_arg = Some(Listing(ToSet(rec.unused.v) \ ToSet(db))),
                          !.removed = DOMAIN files \ DOMAIN files',
                          !.pc = "done"]
    /\ UNCHANGED <<id_vars, config_vars, db, n_calls>>

\* await self.bulk_delete_files(unused_file_keys)
CallBulkDeleteFiles ==
    /\ rec.pc = "delete"
    /\ files' = BulkDeleteFiles(rec.unused.v)
    /\ ok_calls' = [k \in DOMAIN ok_calls \cap DOMAIN files' |-> ok_calls[k]]
    /\ tasks' = [c \in Callers |->
                    IF tasks[c].file_id \in DOMAIN files \ DOMAIN files'
                    THEN [tasks[c] EXCEPT !.fd_at_path = FALSE]
                    ELSE tasks[c]]
    /\ rec' = [rec EXCEPT !.bulk_arg = rec.unused,
                          !.removed = DOMAIN files \ DOMAIN files',
                          !.pc = "done"]
    /\ UNCHANGED <<id_vars, config_vars, db, n_calls>>

-----------------------------------------------------------------------------
(* The storage and its reconciliation *)

\* the file_permissions given to the constructor: None, 0o640, 0o600
PermissionArgs == {None, Some(416), Some(384)}

\* an instance of either backend, with the default characters and extensions
\* and one of the file_permissions of perms
Constructed(perms) ==
    /\ allowed_characters = Some(ALLOWED_CHARACTERS)
    /\ allowed_extensions = InitAllowedExtensions(Some(ALLOWED_EXTENSIONS))
    /\ arg_file_name = <<>>
    /\ ret = NotCalled
    /\ backend \in {"local", "s3"}
    /\ file_permissions \in (IF backend = "local" THEN perms ELSE {None})
    /\ umask_mode = 420
    /\ StorageInit

\* file_permissions is the default 0o640, or None
Init == Constructed({None, Some(416)})

\* file_permissions is any of PermissionArgs
InitStore == Constructed(PermissionArgs)

Next ==
    \/ \E c \in Callers, file_name \in StoreNames : LocalStoreFile(c, file_name)
    \/ \E c \in Callers : SaveExists(c)
    \/ \E c \in Callers : SaveOpen(c)
    \/ \E c \in Callers : SaveCopy(c)
    \/ \E c \in Callers : SaveChmod(c)
    \/ \E c \in Callers, file_name \in StoreNames : S3StoreFile(c, file_name)
    \/ \E c \in Callers : S3Upload(c)
    \/ \E c \in Callers : InsertRow(c)
    \/ \E i \in 1..MaxRows : DeleteRow(i)
    \/ \E n \in NumbersShown, auto \in BOOLEAN : DeleteUnusedFiles(n, auto)
    \/ GetFileKeysFromDb
    \/ GetFileKeys
    \/ GetUnusedFileKeys
    \/ ReportUnused
    \/ \E answer \in Answers : Input(answer)
    \/ CallBulkDeleteFiles

Spec == Init /\ [][Next]_vars

\* the callers of store_file alone, with valid and invalid file names
NextStore ==
    \/ \E c \in Callers, file_name \in StoreNames \cup InvalidNames :
          LocalStoreFile(c, file_name)
    \/ \E c \in Callers : SaveExists(c)
    \/ \E c \in Callers : SaveOpen(c)
    \/ \E c \in Callers : SaveCopy(c)
    \/ \E c \in Callers : SaveChmod(c)
    \/ \E c \in Callers, file_name \in StoreNames \cup InvalidNames :
          S3StoreFile(c, file_name)
    \/ \E c \in Callers : S3Upload(c)

SpecStore == InitStore /\ [][NextStore]_vars

-----------------------------------------------------------------------------
(* Properties of generate_file_id, checked under SpecId *)

Called == ret # NotCalled
Returned == ret.raised = ""

\* the final path segment of the name passed in
Segment == PathName(arg_file_name)

\* the text before and after the last "." of s (s has a ".")
HasDot(s) == Positions(s, ".") # {}
BaseOf(s) == SubSeq(s, 1, Max(Positions(s, ".")) - 1)
ExtOf(s) == SubSeq(s, Max(Positions(s, ".")) + 1, Len(s))

\* the name passes the checks that come before the split
ReachesSplit ==
    /\ arg_file_name # <<>>
    /\ ~(Len(Segment) >= 1 /\ Segment[1] = ".")
    /\ ~Contains(Segment, <<".", ".">>)
    /\ Truthy(allowed_characters) =>
          \A i \in DOMAIN Segment : Segment[i] \in ToSet(allowed_characters.v)

HexDigits == ToSet(digits) \cup {"a", "b", "c", "d", "e", "f"}

\* the canonical form of a UUID: 8-4-4-4-12 lower-case hex digits
IsCanonicalUuid(s) ==
    /\ Len(s) = 36
    /\ \A i \in DOMAIN s :
          IF i \in {9, 14, 19, 24} THEN s[i] = "-" ELSE s[i] \in HexDigits

\* what the policy keeps of the base name
TruncatedBase ==
    IF Len(Segment) > TruncateAt THEN Prefix(BaseOf(Segment), TruncateAt)
    ELSE BaseOf(Segment)

\* a valid name whose extension is in the configured allowed set, whatever
\* the letter case
ValidWithAllowedExtension ==
    /\ ReachesSplit
    /\ HasDot(Segment)
    /\ Truthy(allowed_extensions)
    /\ \E i \in DOMAIN allowed_extensions.v :
          Lower(allowed_extensions.v[i]) = Lower(ExtOf(Segment))

\* C4: for a valid file name whose extension e matches the allowed set
\* case-insensitively, generate_file_id returns <base>-<uuid>.<e>: the
\* truncated base name, "-", a canonical UUID string, "." and e in the letter
\* case of the input.
C4_FileIdFormat ==
    (Called /\ ValidWithAllowedExtension) =>
        LET base == TruncatedBase
            e == ExtOf(Segment)
            key == ret.file_id
        IN  /\ Returned
            /\ Len(key) = Len(base) + 1 + 36 + 1 + Len(e)
            /\ Prefix(key, Len(base)) = base
            /\ key[Len(base) + 1] = "-"
            /\ IsCanonicalUuid(SubSeq(key, Len(base) + 2, Len(base) + 37))
            /\ key[Len(base) + 38] = "."
            /\ DropFirst(key, Len(base) + 38) = e

\* a long name with a mixed-case extension was given a key
C4_Witness ==
    /\ Called /\ ValidWithAllowedExtension /\ Returned
    /\ ExtOf(Segment) = <<"J", "p", "g">>
    /\ Len(BaseOf(Segment)) > TruncateAt

\* C5: every returned key is one safe path segment: it does not begin with
\* ".", and contains neither ".." nor "/".
C5_SafeSegment ==
    (Called /\ Returned) =>
        /\ ret.file_id # <<>>
        /\ ret.file_id[1] # "."
        /\ ~Contains(ret.file_id, <<".", ".">>)
        /\ "/" \notin ToSet(ret.file_id)

\* a key was returned for a name with directory components, with every
\* character and every extension allowed
C5_Witness ==
    /\ Called /\ Returned
    /\ "/" \in ToSet(arg_file_name)
    /\ ~Truthy(allowed_characters)
    /\ ~Truthy(allowed_extensions)

\* C6 as stated: every file name that starts with "." raises the hidden-file
\* error.
C6_Original ==
    (Called /\ arg_file_name # <<>> /\ arg_file_name[1] = ".") =>
        (ret.raised = HiddenFile /\ ret.file_id = <<>>)

\* C6: every non-empty file name whose final path segment starts with "."
\* raises the hidden-file error and returns no key.
C6_HiddenSegment ==
    (Called /\ arg_file_name # <<>> /\ Segment # <<>> /\ Segment[1] = ".") =>
        (ret.raised = HiddenFile /\ ret.file_id = <<>>)

\* a hidden file inside a directory was refused
C6_Witness ==
    /\ Called /\ Segment # <<>> /\ Segment[1] = "."
    /\ arg_file_name[1] # "."
    /\ ret.raised = HiddenFile

\* C7 as stated: every file name that contains ".." raises the path-traversal
\* error.
C7_Original ==
    (Called /\ Contains(arg_file_name, <<".", ".">>)) =>
        (ret.raised = DoublePeriod /\ ret.file_id = <<>>)

\* C7: every file name whose final path segment contains ".." and does not
\* start with "." raises the path-traversal error and returns no key.
C7_DoublePeriodSegment ==
    (Called /\ Segment # <<>> /\ Segment[1] # "."
            /\ Contains(Segment, <<".", ".">>)) =>
        (ret.raised = DoublePeriod /\ ret.file_id = <<>>)

\* a name with ".." inside its final segment was refused
C7_Witness ==
    /\ Called /\ Segment # <<>> /\ Segment[1] # "."
    /\ Contains(Segment, <<".", ".">>)
    /\ "/" \in ToSet(arg_file_name)
    /\ ret.raised = DoublePeriod

\* C8: a name that reaches the split with no extension (no ".", or nothing
\* after its last ".") raises the missing-extension error under every
\* configuration, so every returned key ends in "." and a non-empty extension.
C8_MissingExtension ==
    /\ (Called /\ ReachesSplit
               /\ (~HasDot(Segment) \/ ExtOf(Segment) = <<>>)) =>
           ret.raised = NoExtension
    /\ (Called /\ Returned) =>
           LET e == ExtOf(Segment)
               key == ret.file_id
           IN  /\ e # <<>>
               /\ Len(key) > Len(e) + 1
               /\ DropFirst(key, Len(key) - Len(e) - 1) = <<".">> \o e

\* C9: when the final path segment is longer than 50 characters the base part
\* of the key is the first 50 characters of the base name, otherwise the whole
\* base name; the extension is kept whole; the base part never exceeds 50.
C9_Truncation ==
    (Called /\ Returned) =>
        LET e == ExtOf(Segment)
            key == ret.file_id
            tail == 1 + 36 + (IF e = <<>> THEN 0 ELSE 1 + Len(e))
            basePart == Prefix(key, Len(key) - tail)
        IN  /\ Len(key) >= tail
            /\ basePart = TruncatedBase
            /\ Len(basePart) <= TruncateAt
            /\ e = <<>> \/ DropFirst(key, Len(key) - Len(e)) = e
            /\ Len(Segment) <= TruncateAt => basePart = BaseOf(Segment)

\* a key was returned for a base name of more than 50 characters
C9_Witness ==
    /\ Called /\ Returned
    /\ Len(BaseOf(Segment)) > TruncateAt
    /\ Len(ExtOf(Segment)) = 3

\* the positions of the characters of the final segment that are not allowed
DisallowedAt ==
    IF Truthy(allowed_characters)
    THEN {i \in DOMAIN Segment : Segment[i] \notin ToSet(allowed_characters.v)}
    ELSE {}

\* the first check, in the order of C11, that the name fails ("" when none):
\* a name has no extension when it has no ".", and a disallowed one when what
\* follows its last "." is not in the configured set
FirstFailingCheck ==
    IF arg_file_name = <<>> THEN EmptyName
    ELSE IF Segment # <<>> /\ Segment[1] = "." THEN HiddenFile
    ELSE IF Contains(Segment, <<".", ".">>) THEN DoublePeriod
    ELSE IF DisallowedAt # {} THEN DisallowedCharacter
    ELSE IF ~HasDot(Segment) THEN NoExtension
    ELSE IF /\ Truthy(allowed_extensions)
            /\ \A i \in DOMAIN allowed_extensions.v :
                  allowed_extensions.v[i] # Lower(ExtOf(Segment))
         THEN NotAllowedType
    ELSE ""

\* C11: generate_file_id reports the first check that fails, in the order
\* empty name, leading "." of the stripped name, "..", first character outside
\* the allowed set, missing extension, extension not allowed; so the error
\* kind depends on the input alone, and a disallowed character is reported
\* whatever the extension.
C11_CheckOrder ==
    Called =>
        /\ ret.raised = FirstFailingCheck
        /\ ret.raised = DisallowedCharacter =>
               /\ ret.char = Segment[CHOOSE i \in DisallowedAt :
                                        \A j \in DisallowedAt : i <= j]
        /\ ret.raised # DisallowedCharacter => ret.char = ""
        /\ ret.raised # "" => ret.file_id = <<>>

\* a disallowed character was reported for a name whose extension is not
\* allowed either
C11_Witness ==
    /\ Called
    /\ ret.raised = DisallowedCharacter /\ ret.char = "@"
    /\ HasDot(Segment) /\ ExtOf(Segment) = <<"e", "x", "e">>
    /\ Truthy(allowed_extensions)

-----------------------------------------------------------------------------
(* Properties of the backends and of the reconciliation, checked under Spec *)

\* C1: store_file rejects a key that is already there and never overwrites:
\* of the calls that derived one key at most one returned it, and the bytes
\* stored under the key are those of that call.
C1_NoOverwrite ==
    \A k \in DOMAIN ok_calls :
        /\ Len(ok_calls[k]) <= 1
        /\ k \in DOMAIN files => files[k].data = Data(ok_calls[k][1])

\* the same, of the local backend alone: two save() threads pass the
\* existence test before either has opened the file
C1_NoOverwriteLocal == backend = "local" => C1_NoOverwrite

\* the run of delete_unused_files is past its gate
PastGate == rec.pc = "delete" \/ rec.bulk_arg.some

\* C2: delete_unused_files calls bulk_delete_files only when the unused list
\* is non-empty and auto is set or the prompt was answered "y", and passes the
\* list get_unused_file_keys returned; on an empty list it reports zero,
\* deletes nothing and does not prompt; when the prompt is declined nothing is
\* deleted.
C2_GatedDeletion ==
    /\ PastGate =>
          /\ rec.unused.some /\ rec.unused.v # <<>>
          /\ rec.auto \/ (rec.asked /\ rec.answer = "y")
    /\ rec.bulk_arg.some => rec.bulk_arg.v = rec.unused.v
    /\ (rec.reported >= 0 /\ rec.unused.v = <<>>) =>
          /\ rec.reported = 0
          /\ rec.pc = "done"
          /\ ~rec.asked /\ ~rec.bulk_arg.some /\ rec.removed = {}
    /\ (rec.asked /\ rec.answer # "y") =>
          /\ rec.pc = "done"
          /\ ~rec.bulk_arg.some /\ rec.removed = {}
    /\ rec.removed # {} => rec.bulk_arg.some

\* the prompt was answered "y" and the unused files were deleted
C2_Witness ==
    /\ rec.pc = "done" /\ ~rec.auto
    /\ rec.asked /\ rec.answer = "y"
    /\ rec.bulk_arg.some /\ rec.removed # {}

\* C3: get_unused_file_keys returns exactly the keys the backend listed that
\* the database did not: each returned key is listed by the backend, none is
\* in the database's list, no such key is missing, and nothing is returned
\* when the two lists hold the same keys.
C3_UnusedIsDifference ==
    rec.pc = "unused" =>
        LET returned == ToSet(rec.unused.v)
            disk == ToSet(rec.disk_keys.v)
            refs == ToSet(rec.db_keys.v)
        IN  /\ \A k \in returned : k \in disk /\ k \notin refs
            /\ \A k \in disk : k \notin refs => k \in returned
            /\ disk = refs => rec.unused.v = <<>>
            /\ Len(rec.unused.v) = Cardinality(returned)

\* one stored key is referenced, another is not, and the latter was returned
C3_Witness ==
    /\ rec.pc = "unused"
    /\ rec.unused.v # <<>>
    /\ \E k \in ToSet(rec.disk_keys.v) : k \in ToSet(rec.db_keys.v)

\* C10: after a successful LocalMediaStorage.store_file the stored file has
\* the mode given as file_permissions; with file_permissions None its mode is
\* left as open() made it.
C10_Permissions ==
    \A c \in Callers :
        (backend = "local" /\ tasks[c].out = "ok"
                           /\ tasks[c].file_id \in DOMAIN files) =>
            files[tasks[c].file_id].mode =
                (IF file_permissions.some THEN file_permissions.v ELSE umask_mode)

\* the six ValueError messages of generate_file_id
ValidationErrors ==
    {EmptyName, HiddenFile, DoublePeriod, DisallowedCharacter, NoExtension,
     NotAllowedType}

\* caller c's store_file has just raised a validation error
RaisesValidationError(c) ==
    /\ tasks'[c] # tasks[c]
    /\ tasks'[c].out \in ValidationErrors

\* C12: when the file name fails validation, store_file raises before any
\* backend I/O on either backend: the call is over at once, no file or object
\* is created, written or modified, and the backend holds the keys it held.
C12_NoIOOnInvalidName ==
    [][\A c \in Callers :
          RaisesValidationError(c) =>
              /\ tasks[c].pc = "idle" /\ tasks'[c].pc = "idle"
              /\ files' = files
              /\ DOMAIN files' = DOMAIN files
              /\ ok_calls' = ok_calls]_vars

\* a store_file with a name of a type not allowed was refused while the
\* backend held a file
C12_Witness ==
    /\ \E c \in Callers : tasks[c].pc = "idle" /\ tasks[c].out = NotAllowedType
    /\ DOMAIN files # {}

\* C13: the reconciliation takes no lock and reads the rows and the backend
\* once: every key that was listed by the backend and not by the database is
\* in the unused list, that list is what a confirmed or auto run passes to
\* bulk_delete_files, and every key of it is gone afterwards, also one that a
\* caller has recorded in the meantime; when no step of store_file and no
\* change of the rows came in between, no key passed is in the database.
C13_SnapshotOnce ==
    [][/\ rec.pc = "unused" =>
             \A k \in ToSet(rec.disk_keys.v) :
                 k \notin ToSet(rec.db_keys.v) => k \in ToSet(rec.unused.v)
       /\ (rec.pc \in {"unused", "input", "delete"} /\ rec'.pc # "gather") =>
             rec'.unused = rec.unused
       /\ (rec.pc = "unused" /\ rec.unused.v # <<>> /\ rec.auto) =>
             rec'.pc \in {"unused", "delete"}
       /\ (rec.pc = "input" /\ rec'.asked /\ rec'.answer = "y") =>
             rec'.pc = "delete"
       /\ (rec.pc = "delete" /\ rec'.pc = "done") =>
             /\ rec'.bulk_arg = rec.unused
             /\ \A k \in ToSet(rec.unused.v) : k \notin DOMAIN files'
             /\ ~rec.interleaved =>
                   \A k \in ToSet(rec'.bulk_arg.v) : k \notin ToSet(db)]_vars

\* a key was stored, listed as unused, recorded by its caller while the run
\* was under way, and deleted by the run
C13_Witness ==
    /\ rec.pc = "done" /\ rec.interleaved
    /\ \E k \in rec.removed : k \in ToSet(db) /\ k \notin DOMAIN files

====
